---- MODULE Spec2Model ----
(***************************************************************************)
(* A model of client/src/MusicPlayer.tsx: the React component that loads   *)
(* seven Tone.js synthesizers, listens on a WebSocket for                  *)
(* {instrument: chord} bundles, triggers the chord's notes on the          *)
(* instrument, and resumes / closes the shared audio context from two      *)
(* buttons.                                                                *)
(*                                                                         *)
(* Times are in tenths of a second (0.1 s = 1), so the code's 0.1, 0.2 and *)
(* 0.5 are 1, 2 and 5.  JavaScript values are records [t, s]: t is the     *)
(* value's kind and s its text.                                            *)
(***************************************************************************)
EXTENDS Integers, Sequences, FiniteSets, TLC

VARIABLES
    call,        \* one invocation of playInstrument: its arguments and what it did
    pc,          \* "ready" before that invocation, "done" after it
    event,       \* one invocation of onMessage: the closure's synths, the data, what it did
    epc          \* "ready" before that invocation, "done" after it

VARIABLES
    mounted,     \* the component is mounted
    loadPc,      \* where loadSynths stands
    created,     \* the instruments whose synthesizer has been constructed
    synths,      \* the component state `synths`
    socket,      \* what useSocket() returns now
    rendered,    \* the synths and socket the latest render's closures hold
    committed,   \* the synths and socket the listener effect last ran with
    listeners,   \* the message listeners registered on the sockets
    publishes,   \* how many times setSynths has been called
    triggered,   \* some trigger call has been issued
    last         \* the last message event: what its dispatch did

VARIABLES
    ctxState,    \* audioContextRef.current.state
    pending,     \* the resume() and close() promises not yet settled
    presses,     \* how many times a button has been pressed
    lastPress,   \* the last press: the handler, the state it found, the call it made
    resumedIn,   \* the states the context was in when resume() was called on it
    closedIn     \* the states the context was in when close() was called on it

playVars == <<call, pc>>
messageVars == <<event, epc>>
componentVars == <<mounted, loadPc, created, synths, socket, rendered, committed,
                   listeners, publishes, triggered, last>>
audioVars == <<ctxState, pending, presses, lastPress, resumedIn, closedIn>>
vars == <<call, pc, event, epc, mounted, loadPc, created, synths, socket, rendered,
          committed, listeners, publishes, triggered, last, ctxState, pending, presses,
          lastPress, resumedIn, closedIn>>

-----------------------------------------------------------------------------
(* Bounds of the model.                                                    *)

\* Tone.now() is read from 0..MaxNow
MaxNow == 1
\* the trigger call that throws is the FailAt-th one, FailAt in 0..MaxFailAt (0: none throws)
MaxFailAt == 4
\* a message's JSON text has at most MaxFields members
MaxFields == 2
\* the Play and Pause buttons are pressed at most MaxPresses times
MaxPresses == 4

-----------------------------------------------------------------------------
(* JavaScript values.                                                      *)

Str(s) == [t |-> "string", s |-> s]
Undefined == [t |-> "undefined", s |-> ""]

\* !v for the values a chord argument can hold: undefined, null and "" are falsy
Falsy(v) == v.t \in {"undefined", "null"} \/ (v.t = "string" /\ v.s = "")

\* typeof v
TypeOf(v) == IF v.t \in {"null", "array", "object"} THEN "object" ELSE v.t

\* The properties every object literal inherits from Object.prototype: obj[key]
\* finds them when key is not an own property of obj.
ObjectPrototype ==
    {"constructor", "__proto__", "hasOwnProperty", "isPrototypeOf",
     "propertyIsEnumerable", "toLocaleString", "toString", "valueOf",
     "__defineGetter__", "__defineSetter__", "__lookupGetter__", "__lookupSetter__"}

-----------------------------------------------------------------------------
(* The synth set.                                                          *)

\* interface Synths: the class of each instrument's synthesizer
SynthKinds ==
    [kick        |-> "MembraneSynth",
     snare       |-> "NoiseSynth",
     bass_drum   |-> "MembraneSynth",
     hihat       |-> "MetalSynth",
     bass_guitar |-> "Synth",
     guitar      |-> "PolySynth",
     piano       |-> "Sampler"]

Instruments == DOMAIN SynthKinds

\* useState<Synths | null>(null)
NullSynths == [isNull |-> TRUE, own |-> <<>>]

\* the object literal handed to setSynths
LoadedSynths == [isNull |-> FALSE, own |-> SynthKinds]

timeTable ==
    [snare |-> "8n", kick |-> "2n", bass_drum |-> "2n", hihat |-> "16n",
     bass_guitar |-> "2n", guitar |-> "2n", piano |-> "2n"]

\* synth instanceof Tone.Sampler
IsSampler(kind) == kind = "Sampler"

\* 'triggerAttack' in synth: every Tone instrument class of the set has the method;
\* a value inherited from Object.prototype has not
HasTriggerAttack(kind) ==
    kind \in {"MembraneSynth", "NoiseSynth", "MetalSynth", "Synth", "PolySynth", "Sampler"}

\* the method of the third branch, which the Tone instrument classes have as well
HasTriggerAttackRelease(kind) ==
    kind \in {"MembraneSynth", "NoiseSynth", "MetalSynth", "Synth", "PolySynth", "Sampler"}

\* SynthLookup falling back to the piano for a name that is not an own property
SynthLookup_Fallback(syn, instrument) ==
    IF instrument \in DOMAIN syn.own
    THEN [found |-> "own", kind |-> syn.own[instrument]]
    ELSE [found |-> "own", kind |-> syn.own["piano"]]

\* synths[instrument as keyof Synths]: an own property, else an inherited one, else undefined
SynthLookup(syn, instrument) ==
    IF instrument \in DOMAIN syn.own
    THEN [found |-> "own", kind |-> syn.own[instrument]]
    ELSE IF instrument \in ObjectPrototype
         THEN [found |-> "inherited", kind |-> "Object.prototype"]
         ELSE [found |-> "undefined", kind |-> ""]

-----------------------------------------------------------------------------
(* The chord resolver.                                                     *)

chordMap ==
    [Amaj |-> <<"A", "C#", "E">>,
     Bmaj |-> <<"B", "D#", "F#">>,
     Cmaj |-> <<"C", "E", "G">>,
     Dmaj |-> <<"D", "F#", "A">>,
     Emaj |-> <<"E", "G#", "B">>,
     Fmaj |-> <<"F", "A", "C">>,
     Gmaj |-> <<"G", "B", "D">>,
     Amin |-> <<"A", "C", "E">>,
     Bmin |-> <<"B", "D", "F#">>,
     Cmin |-> <<"C", "Eb", "G">>,
     Dmin |-> <<"D", "F", "A">>,
     Emin |-> <<"E", "G", "B">>,
     Fmin |-> <<"F", "Ab", "C">>,
     Gmin |-> <<"G", "Bb", "D">>]

\* chordMap[chord] || []: isArray says whether the result is an array (items) or
\* the member of Object.prototype named by inherited, which is truthy and so is
\* returned as it is
chordToNotes(chord) ==
    IF chord \in DOMAIN chordMap
    THEN [isArray |-> TRUE, items |-> chordMap[chord], inherited |-> ""]
    ELSE IF chord \in ObjectPrototype
         THEN [isArray |-> FALSE, items |-> <<>>, inherited |-> chord]
         ELSE [isArray |-> TRUE, items |-> <<>>, inherited |-> ""]

-----------------------------------------------------------------------------
(* The playback dispatcher.                                                *)

\* index * 0.2
Stagger == 2
\* + 0.1
InitialDelay == 1
\* startTime + 0.5
ReleaseAfter == 5

\* NoteWithOctave with the length test lost: the octave is appended to every note
NoteWithOctave_Always(note) == note \o "4"

\* note.length === 1 ? `${note}4` : note
NoteWithOctave(note) == IF Len(note) = 1 THEN note \o "4" ELSE note

\* StartTime without the initial delay
StartTime_NoDelay(now, index) == now + index * Stagger

\* Tone.now() + index * 0.2 + 0.1
StartTime(now, index) == now + index * Stagger + InitialDelay

\* one call of a method of a synthesizer
Trigger(instrument, method, note, duration, time) ==
    [synth |-> instrument, method |-> method, note |-> note,
     duration |-> duration, time |-> time, threw |-> FALSE]

\* The body of notes.forEach for one note: the trigger calls it makes when none
\* of them throws, or typeError when the method it calls does not exist.
TriggerNote(kind, instrument, note, index, now) ==
    LET noteWithOctave == NoteWithOctave(note)
        startTime == StartTime(now, index)
    IN  IF IsSampler(kind)
        THEN [typeError |-> FALSE,
              calls |-> << Trigger(instrument, "triggerAttack", noteWithOctave, "", startTime),
                           Trigger(instrument, "triggerRelease", noteWithOctave, "",
                                   startTime + ReleaseAfter) >>]
        ELSE IF HasTriggerAttack(kind)
        THEN [typeError |-> FALSE,
              calls |-> << Trigger(instrument, "triggerAttack", noteWithOctave, "", startTime),
                           Trigger(instrument, "triggerRelease", "", "",
                                   startTime + ReleaseAfter) >>]
        ELSE IF ~HasTriggerAttackRelease(kind)
        THEN \* synth.triggerAttackRelease is not a function
             [typeError |-> TRUE, calls |-> <<>>]
        ELSE [typeError |-> FALSE,
              calls |-> << Trigger(instrument, "triggerAttackRelease", noteWithOctave,
                                   IF instrument \in DOMAIN timeTable
                                   THEN timeTable[instrument] ELSE "undefined",
                                   startTime) >>]

\* the calls made when the last of them throws
Thrown(calls) ==
    [i \in 1..Len(calls) |-> IF i = Len(calls) THEN [calls[i] EXCEPT !.threw = TRUE]
                                               ELSE calls[i]]

\* notes.forEach from note `index` on, after the calls `made`; the failAt-th
\* trigger call of the invocation throws (0: none does), which ends the loop.
RECURSIVE forEachNote(_, _, _, _, _, _, _)
forEachNote(kind, instrument, notes, index, now, failAt, made) ==
    IF index >= Len(notes)
    THEN [calls |-> made, thrown |-> FALSE]
    ELSE LET step == TriggerNote(kind, instrument, notes[index + 1], index, now)
             n == Len(made)
         IN  IF step.typeError
             THEN [calls |-> made, thrown |-> TRUE]
             ELSE IF failAt \in (n + 1)..(n + Len(step.calls))
             THEN [calls |-> made \o Thrown(SubSeq(step.calls, 1, failAt - n)),
                   thrown |-> TRUE]
             ELSE forEachNote(kind, instrument, notes, index + 1, now, failAt,
                              made \o step.calls)

\* what one invocation of playInstrument did: its trigger calls, its console
\* lines, the result of chordToNotes when it got that far, and whether an
\* exception escaped to the caller
Outcome(calls, log, resolved, notes, escaped) ==
    [calls |-> calls, log |-> log, resolved |-> resolved, notes |-> notes,
     escaped |-> escaped]

NoNotes == [isArray |-> TRUE, items |-> <<>>, inherited |-> ""]

\* TryCatch rethrowing what it caught
TryCatch_Rethrow(body, notes) ==
    Outcome(body.calls,
            IF body.thrown THEN <<"log: Playing", "error: Error in playInstrument">>
                           ELSE <<"log: Playing">>,
            TRUE, notes, body.thrown)

\* try { ... } catch (error) { console.error(...) }
TryCatch(body, notes) ==
    Outcome(body.calls,
            IF body.thrown THEN <<"log: Playing", "error: Error in playInstrument">>
                           ELSE <<"log: Playing">>,
            TRUE, notes, FALSE)

\* playInstrument from the lookup of the synthesizer on, for the chord name `chord`
Dispatch(syn, instrument, chord, now, failAt) ==
    LET synth == SynthLookup(syn, instrument)
    IN  IF synth.found = "undefined"
        THEN Outcome(<<>>, <<"error: Instrument not found">>, FALSE, NoNotes, FALSE)
        ELSE LET notes == chordToNotes(chord)
             IN  IF ~notes.isArray
                 THEN \* notes.forEach is not a function
                      TryCatch([calls |-> <<>>, thrown |-> TRUE], notes)
                 ELSE TryCatch(forEachNote(synth.kind, instrument, notes.items, 0,
                                           now, failAt, <<>>), notes)

\* playInstrument playing a default chord when it is given none
playInstrument_DefaultChord(syn, instrument, chordOrNote, now, failAt) ==
    IF syn.isNull
    THEN Outcome(<<>>, <<"error: Synths not loaded or invalid note">>, FALSE, NoNotes, FALSE)
    ELSE Dispatch(syn, instrument, IF Falsy(chordOrNote) THEN "Cmaj" ELSE chordOrNote.s,
                  now, failAt)

playInstrument(syn, instrument, chordOrNote, now, failAt) ==
    IF Falsy(chordOrNote) \/ syn.isNull
    THEN Outcome(<<>>, <<"error: Synths not loaded or invalid note">>, FALSE, NoNotes, FALSE)
    ELSE Dispatch(syn, instrument, chordOrNote.s, now, failAt)

-----------------------------------------------------------------------------
(* The socket message handler.                                             *)

\* The text of a JSON object is modelled by its members in the order they are
\* written, each [key, value]; a key may be written twice.
Member(k, v) == [key |-> k, value |-> v]

\* keys that are array indices: Object.entries lists them first, ascending
IndexKeys == <<"0", "1", "2", "3", "4", "5", "6", "7", "8", "9">>

IsIndexKey(k) == \E i \in DOMAIN IndexKeys : IndexKeys[i] = k

\* the keys written in data[1..n], each once, in the order of their first occurrence
RECURSIVE WrittenKeys(_, _)
WrittenKeys(data, n) ==
    IF n = 0 THEN <<>>
    ELSE LET before == WrittenKeys(data, n - 1)
         IN  IF \E i \in DOMAIN before : before[i] = data[n].key
             THEN before
             ELSE Append(before, data[n].key)

\* the value a key holds after parsing: the one written last
LastValue(data, k) ==
    data[CHOOSE i \in DOMAIN data :
            /\ data[i].key = k
            /\ \A j \in DOMAIN data : data[j].key = k => j <= i].value

\* Object.entries(JSON.parse(event.data)): index keys ascending, then the other
\* keys in the order they were created
ObjectEntries(data) ==
    LET written == WrittenKeys(data, Len(data))
        present(k) == \E i \in DOMAIN written : written[i] = k
        order == SelectSeq(IndexKeys, present)
                     \o SelectSeq(written, LAMBDA k : ~IsIndexKey(k))
    IN  [i \in DOMAIN order |-> Member(order[i], LastValue(data, order[i]))]

\* IsDispatched testing the value for truth instead of for its type
IsDispatched_Truthy(value) == ~(Falsy(value) \/ (value.t = "number" /\ value.s = "0"))

\* typeof chord === 'string'
IsDispatched(value) == TypeOf(value) = "string"

\* .map over the entries from entry i on. acc holds the playInstrument
\* invocations made so far, their trigger calls, and whether an exception left
\* the handler (which ends the map).
RECURSIVE mapEntries(_, _, _, _, _, _)
mapEntries(syn, entries, i, now, failAt, acc) ==
    IF i > Len(entries) \/ acc.escaped
    THEN acc
    ELSE IF ~IsDispatched(entries[i].value)
    THEN mapEntries(syn, entries, i + 1, now, failAt, acc)
    ELSE LET n == Len(acc.calls)
             r == playInstrument(syn, entries[i].key, entries[i].value, now,
                                 IF failAt > n THEN failAt - n ELSE 0)
         IN  mapEntries(syn, entries, i + 1, now, failAt,
                        [invoked |-> Append(acc.invoked,
                                            [instrument |-> entries[i].key,
                                             chordOrNote |-> entries[i].value]),
                         calls |-> acc.calls \o r.calls,
                         log |-> acc.log \o r.log,
                         escaped |-> r.escaped])

NothingHandled == [invoked |-> <<>>, calls |-> <<>>, log |-> <<>>, escaped |-> FALSE]

\* onMessage of the render whose closure holds `synths`
onMessage(syn, data, now, failAt) ==
    mapEntries(syn, ObjectEntries(data), 1, now, failAt, NothingHandled)

-----------------------------------------------------------------------------
(* One invocation of playInstrument, on arguments drawn from these sets.   *)

InstrumentArgs == Instruments \cup {"drums", "constructor", "__proto__", "toString"}

ChordArgs ==
    {Str(c) : c \in DOMAIN chordMap \cup {"", "C", "Hmaj", "constructor", "toString"}}
        \cup {Undefined}

Idle == Outcome(<<>>, <<>>, FALSE, NoNotes, FALSE)

CallInputs ==
    [instrument : InstrumentArgs, chordOrNote : ChordArgs,
     synths : {NullSynths, LoadedSynths}, now : 0..MaxNow,
     failAt : 0..MaxFailAt, out : {Idle}]

NoCall ==
    [instrument |-> "", chordOrNote |-> Undefined, synths |-> NullSynths, now |-> 0,
     failAt |-> 0, out |-> Idle]

PlayCall ==
    /\ pc = "ready"
    /\ call' = [call EXCEPT !.out = playInstrument(call.synths, call.instrument,
                                                   call.chordOrNote, call.now, call.failAt)]
    /\ pc' = "done"
    /\ UNCHANGED <<messageVars, componentVars, audioVars>>

-----------------------------------------------------------------------------
(* One invocation of onMessage, on a message drawn from these sets.        *)

MessageKeys == {"kick", "piano", "0", "1"}

MessageValues ==
    {Str("Cmaj"), Str(""), [t |-> "number", s |-> "7"], [t |-> "null", s |-> "null"]}

Members == {Member(k, v) : k \in MessageKeys, v \in MessageValues}

MessageData == UNION {[1..n -> Members] : n \in 0..MaxFields}

EventInputs ==
    [synths : {NullSynths, LoadedSynths}, data : MessageData, now : 0..MaxNow,
     failAt : 0..MaxFailAt, out : {NothingHandled}]

NoEvent ==
    [synths |-> NullSynths, data |-> <<>>, now |-> 0, failAt |-> 0,
     out |-> NothingHandled]

HandleMessage ==
    /\ epc = "ready"
    /\ event' = [event EXCEPT !.out = onMessage(event.synths, event.data, event.now,
                                                event.failAt)]
    /\ epc' = "done"
    /\ UNCHANGED <<playVars, componentVars, audioVars>>

-----------------------------------------------------------------------------
(* The component: loading the synths, rendering, the listener effect.      *)

NoSocket == "null"
Sockets == {"ws1", "ws2"}

\* the messages the sockets deliver to the component
SocketMembers == {Member("kick", Str("Cmaj")), Member("piano", Str("Amin"))}

SocketMessages == UNION {[1..n -> SocketMembers] : n \in 0..MaxFields}

Closure(syn, sock) == [synths |-> syn, socket |-> sock]

\* socket.addEventListener('message', onMessage): onMessage is a new function
\* exactly when synths changed, so the closure's synths identify it
Listener(c) == [socket |-> c.socket, synths |-> c.synths]

NoDelivery == [socket |-> NoSocket, handled |-> 0, invoked |-> 0, calls |-> 0,
               published |-> FALSE]

\* The first flush of the effects: loadSynths() runs to its first await, having
\* built the kick and the snare and called createBassDrum(); the listener effect
\* registers onMessage when there is a socket.
MountEffects ==
    /\ mounted /\ loadPc = "idle"
    /\ loadPc' = "awaitBassDrum"
    /\ created' = {"kick", "snare"}
    /\ listeners' = IF rendered.socket = NoSocket THEN listeners
                    ELSE listeners \cup {Listener(rendered)}
    /\ committed' = [ran |-> TRUE, synths |-> rendered.synths, socket |-> rendered.socket]
    /\ UNCHANGED <<mounted, synths, socket, rendered, publishes, triggered, last>>
    /\ UNCHANGED <<playVars, messageVars, audioVars>>

\* await createBassDrum() resolves: the object literal goes on to createPiano()
BassDrumLoaded ==
    /\ loadPc = "awaitBassDrum"
    /\ loadPc' = "awaitPiano"
    /\ created' = created \cup {"bass_drum", "hihat", "bass_guitar", "guitar"}
    /\ UNCHANGED <<mounted, synths, socket, rendered, committed, listeners, publishes,
                   triggered, last>>
    /\ UNCHANGED <<playVars, messageVars, audioVars>>

\* await createPiano() resolves: setSynths({...}); React drops the update of an
\* unmounted component
PianoLoaded ==
    /\ loadPc = "awaitPiano"
    /\ loadPc' = "published"
    /\ created' = created \cup {"piano"}
    /\ publishes' = publishes + 1
    /\ synths' = IF mounted
                 THEN [isNull |-> FALSE, own |-> [i \in created' |-> SynthKinds[i]]]
                 ELSE synths
    /\ UNCHANGED <<mounted, socket, rendered, committed, listeners, triggered, last>>
    /\ UNCHANGED <<playVars, messageVars, audioVars>>

\* either await rejects: loadSynths() ends in an unhandled rejection
LoadRejected ==
    /\ loadPc \in {"awaitBassDrum", "awaitPiano"}
    /\ loadPc' = "rejected"
    /\ UNCHANGED <<mounted, created, synths, socket, rendered, committed, listeners,
                   publishes, triggered, last>>
    /\ UNCHANGED <<playVars, messageVars, audioVars>>

\* useSocket() comes to return another value: a socket, or none
SocketChange ==
    /\ mounted /\ loadPc # "idle"
    /\ \E s \in Sockets \cup {NoSocket} : s # socket /\ socket' = s
    /\ UNCHANGED <<mounted, loadPc, created, synths, rendered, committed, listeners,
                   publishes, triggered, last>>
    /\ UNCHANGED <<playVars, messageVars, audioVars>>

\* A re-render after a state change: playInstrument and onMessage are made anew
\* over the current synths. React flushes the pending effects before it renders.
Render ==
    /\ mounted /\ committed.ran
    /\ Closure(committed.synths, committed.socket) = rendered
    /\ rendered # Closure(synths, socket)
    /\ rendered' = Closure(synths, socket)
    /\ UNCHANGED <<mounted, loadPc, created, synths, socket, committed, listeners,
                   publishes, triggered, last>>
    /\ UNCHANGED <<playVars, messageVars, audioVars>>

\* RunEffect whose cleanup removes nothing
RunEffect_NoCleanup ==
    /\ mounted /\ committed.ran
    /\ Closure(committed.synths, committed.socket) # rendered
    /\ listeners' = IF rendered.socket = NoSocket THEN listeners
                    ELSE listeners \cup {Listener(rendered)}
    /\ committed' = [ran |-> TRUE, synths |-> rendered.synths, socket |-> rendered.socket]
    /\ UNCHANGED <<mounted, loadPc, created, synths, socket, rendered, publishes,
                   triggered, last>>
    /\ UNCHANGED <<playVars, messageVars, audioVars>>

\* The listener effect after a render that changed socket or onMessage: the
\* cleanup of its last run removes that run's listener, then the new one is added.
RunEffect ==
    /\ mounted /\ committed.ran
    /\ Closure(committed.synths, committed.socket) # rendered
    /\ listeners' =
           LET cleaned == IF committed.socket = NoSocket THEN listeners
                          ELSE listeners \ {Listener(committed)}
           IN  IF rendered.socket = NoSocket THEN cleaned
               ELSE cleaned \cup {Listener(rendered)}
    /\ committed' = [ran |-> TRUE, synths |-> rendered.synths, socket |-> rendered.socket]
    /\ UNCHANGED <<mounted, loadPc, created, synths, socket, rendered, publishes,
                   triggered, last>>
    /\ UNCHANGED <<playVars, messageVars, audioVars>>

\* the component unmounts: the cleanup of the listener effect's last run
Unmount ==
    /\ mounted /\ committed.ran
    /\ mounted' = FALSE
    /\ listeners' = IF committed.socket = NoSocket THEN listeners
                    ELSE listeners \ {Listener(committed)}
    /\ UNCHANGED <<loadPc, created, synths, socket, rendered, committed, publishes,
                   triggered, last>>
    /\ UNCHANGED <<playVars, messageVars, audioVars>>

\* what the listeners ls did on one message event, summed: the number of
\* playInstrument invocations and of trigger calls their onMessage made
RECURSIVE Dispatched(_, _, _, _)
Dispatched(ls, data, now, failAt) ==
    IF ls = {} THEN [invoked |-> 0, calls |-> 0]
    ELSE LET l == CHOOSE x \in ls : TRUE
             r == onMessage(l.synths, data, now, failAt)
             rest == Dispatched(ls \ {l}, data, now, failAt)
         IN  [invoked |-> Len(r.invoked) + rest.invoked,
              calls |-> Len(r.calls) + rest.calls]

\* A socket dispatches a message event: every listener registered on it runs.
Message ==
    \E s \in {l.socket : l \in listeners} :
        \E data \in SocketMessages, now \in 0..MaxNow, failAt \in 0..MaxFailAt :
            LET ls == {l \in listeners : l.socket = s}
                did == Dispatched(ls, data, now, failAt)
            IN  /\ last' = [socket |-> s, handled |-> Cardinality(ls),
                            invoked |-> did.invoked, calls |-> did.calls,
                            published |-> ~synths.isNull]
                /\ triggered' = (triggered \/ did.calls > 0)
                /\ UNCHANGED <<mounted, loadPc, created, synths, socket, rendered,
                               committed, listeners, publishes>>
                /\ UNCHANGED <<playVars, messageVars, audioVars>>

-----------------------------------------------------------------------------
(* The audio context controls.                                             *)

\* StartCallsResume with the test of the state lost
StartCallsResume_Always(state) == TRUE

\* audioContextRef.current.state !== 'running'
StartCallsResume(state) == state # "running"

\* audioContextRef.current.state === 'running'
StopCallsClose(state) == state = "running"

\* the Play button: resume() is called and awaited; the state changes when the
\* promise settles
handleStartAudio ==
    /\ presses < MaxPresses
    /\ presses' = presses + 1
    /\ IF StartCallsResume(ctxState)
       THEN /\ pending' = [pending EXCEPT !.resume = @ + 1]
            /\ resumedIn' = resumedIn \cup {ctxState}
            /\ lastPress' = [handler |-> "start", before |-> ctxState, called |-> "resume"]
       ELSE /\ lastPress' = [handler |-> "start", before |-> ctxState, called |-> "none"]
            /\ UNCHANGED <<pending, resumedIn>>
    /\ UNCHANGED <<ctxState, closedIn>>
    /\ UNCHANGED <<playVars, messageVars, componentVars>>

\* the Pause button
handleStopAudio ==
    /\ presses < MaxPresses
    /\ presses' = presses + 1
    /\ IF StopCallsClose(ctxState)
       THEN /\ pending' = [pending EXCEPT !.close = @ + 1]
            /\ closedIn' = closedIn \cup {ctxState}
            /\ lastPress' = [handler |-> "stop", before |-> ctxState, called |-> "close"]
       ELSE /\ lastPress' = [handler |-> "stop", before |-> ctxState, called |-> "none"]
            /\ UNCHANGED <<pending, closedIn>>
    /\ UNCHANGED <<ctxState, resumedIn>>
    /\ UNCHANGED <<playVars, messageVars, componentVars>>

\* a resume() promise settles: a suspended context starts running, or the
\* promise rejects and the error is logged; a closed context stays closed
ResumeSettled ==
    /\ pending.resume > 0
    /\ pending' = [pending EXCEPT !.resume = @ - 1]
    /\ \/ ctxState' = IF ctxState = "suspended" THEN "running" ELSE ctxState
       \/ ctxState' = ctxState
    /\ UNCHANGED <<presses, lastPress, resumedIn, closedIn>>
    /\ UNCHANGED <<playVars, messageVars, componentVars>>

\* a close() promise settles: the context is closed, or the promise rejects
\* and the error is logged
CloseSettled ==
    /\ pending.close > 0
    /\ pending' = [pending EXCEPT !.close = @ - 1]
    /\ \/ ctxState' = "closed"
       \/ ctxState' = ctxState
    /\ UNCHANGED <<presses, lastPress, resumedIn, closedIn>>
    /\ UNCHANGED <<playVars, messageVars, componentVars>>

-----------------------------------------------------------------------------
(* The specifications.                                                     *)

PlayIdle == pc = "idle" /\ call = NoCall

MessageIdle == epc = "idle" /\ event = NoEvent

ComponentStart ==
    /\ mounted = TRUE
    /\ loadPc = "idle"
    /\ created = {}
    /\ synths = NullSynths
    /\ rendered = Closure(NullSynths, socket)
    /\ committed = [ran |-> FALSE, synths |-> NullSynths, socket |-> NoSocket]
    /\ listeners = {}
    /\ publishes = 0
    /\ triggered = FALSE
    /\ last = NoDelivery

AudioStart ==
    /\ pending = [resume |-> 0, close |-> 0]
    /\ presses = 0
    /\ lastPress = [handler |-> "none", before |-> ctxState, called |-> "none"]
    /\ resumedIn = {}
    /\ closedIn = {}

\* the component after its first render: useSocket() has returned a socket or
\* none, and Tone's context is suspended until a user gesture
Init ==
    /\ socket \in {NoSocket, "ws1"}
    /\ ComponentStart
    /\ ctxState = "suspended"
    /\ AudioStart
    /\ PlayIdle
    /\ MessageIdle

Next ==
    \/ MountEffects
    \/ BassDrumLoaded
    \/ PianoLoaded
    \/ LoadRejected
    \/ SocketChange
    \/ Render
    \/ RunEffect
    \/ Unmount
    \/ Message

Spec == Init /\ [][Next]_vars

\* the two buttons alone, from a context that is suspended or already running
InitAudio ==
    /\ ctxState \in {"suspended", "running"}
    /\ AudioStart
    /\ socket = NoSocket
    /\ ComponentStart
    /\ PlayIdle
    /\ MessageIdle

NextAudio ==
    \/ handleStartAudio
    \/ handleStopAudio
    \/ ResumeSettled
    \/ CloseSettled

SpecAudio == InitAudio /\ [][NextAudio]_vars

\* playInstrument alone
InitPlay ==
    /\ pc = "ready"
    /\ call \in CallInputs
    /\ MessageIdle
    /\ socket = NoSocket
    /\ ComponentStart
    /\ ctxState = "suspended"
    /\ AudioStart

NextPlay == PlayCall

SpecPlay == InitPlay /\ [][NextPlay]_vars

\* onMessage alone
InitMessage ==
    /\ epc = "ready"
    /\ event \in EventInputs
    /\ PlayIdle
    /\ socket = NoSocket
    /\ ComponentStart
    /\ ctxState = "suspended"
    /\ AudioStart

NextMessage == HandleMessage

SpecMessage == InitMessage /\ [][NextMessage]_vars

-----------------------------------------------------------------------------
(* The chord resolver and the playback dispatcher (SpecPlay).              *)

\* the seven instruments of the synth set
SevenInstruments ==
    {"kick", "snare", "bass_drum", "hihat", "bass_guitar", "guitar", "piano"}

\* Major and minor triads by the rules of harmony: the letters two and four
\* steps above the root, raised or lowered to stand 4 (major) or 3 (minor)
\* semitones, and 7 semitones, above it.
Letters == <<"C", "D", "E", "F", "G", "A", "B">>
Semitone == <<0, 2, 4, 5, 7, 9, 11>>
LetterAbove(i, steps) == ((i - 1 + steps) % 7) + 1
Spelled(i, pitch) ==
    LET d == (pitch - Semitone[i]) % 12
    IN  Letters[i] \o (IF d = 0 THEN "" ELSE IF d = 1 THEN "#" ELSE IF d = 11 THEN "b" ELSE "?")
Triad(i, quality) ==
    << Letters[i],
       Spelled(LetterAbove(i, 2), Semitone[i] + (IF quality = "maj" THEN 4 ELSE 3)),
       Spelled(LetterAbove(i, 4), Semitone[i] + 7) >>

\* Amaj..Gmaj, Amin..Gmin
ChordNames == {Letters[i] \o q : i \in 1..7, q \in {"maj", "min"}}

\* C1: chordToNotes returns, for each of the 14 chord names, the three notes of
\* that triad in order (root, third, fifth), and for every other string,
\* 'constructor' and 'toString' among them, an empty list.
C1_ChordTable ==
    (pc = "done" /\ call.out.resolved) =>
        LET chord == call.chordOrNote.s
            notes == call.out.notes
        IN  /\ notes.isArray
            /\ \A i \in 1..7, q \in {"maj", "min"} :
                   chord = Letters[i] \o q => notes.items = Triad(i, q)
            /\ chord \notin ChordNames => notes.items = <<>>

\* C1, the part the code keeps: the same for every string that names no member
\* of Object.prototype.
C1_OwnNames ==
    (pc = "done" /\ call.out.resolved /\ call.chordOrNote.s \notin ObjectPrototype) =>
        LET chord == call.chordOrNote.s
            notes == call.out.notes
        IN  /\ notes.isArray
            /\ \A i \in 1..7, q \in {"maj", "min"} :
                   chord = Letters[i] \o q => notes.items = Triad(i, q)
            /\ chord \notin ChordNames => notes.items = <<>>

KickCmaj ==
    /\ pc = "done"
    /\ call.instrument = "kick"
    /\ call.chordOrNote = Str("Cmaj")
    /\ ~call.synths.isNull
    /\ call.failAt = 0

\* C2: playInstrument("kick", "Cmaj") with the synths loaded, when no trigger
\* call throws, issues exactly 3 attacks, of C4, E4 and G4 in that order, at
\* 0.1 s, 0.3 s and 0.5 s after Tone.now(), each followed by a release 0.5 s
\* after its attack.
C2_KickCmaj ==
    KickCmaj =>
        LET calls == call.out.calls
            attacks == SelectSeq(calls, LAMBDA c : c.method = "triggerAttack")
        IN  /\ Len(attacks) = 3
            /\ Len(calls) = 6
            /\ [k \in 1..3 |-> attacks[k].note] = <<"C4", "E4", "G4">>
            /\ [k \in 1..3 |-> attacks[k].time - call.now] = <<1, 3, 5>>
            /\ \A k \in 1..3 :
                   /\ calls[2 * k - 1] = attacks[k]
                   /\ calls[2 * k].method = "triggerRelease"
                   /\ calls[2 * k].time = attacks[k].time + 5
            /\ \A i \in 1..6 : calls[i].synth = "kick" /\ ~calls[i].threw

C2_Witness == KickCmaj /\ call.now = 1 /\ Len(call.out.calls) = 6

\* C3: playInstrument with an instrument name that is none of the seven makes
\* no trigger call and lets no exception out, whatever the chord.
C3_UnknownInstrument ==
    (pc = "done" /\ call.instrument \notin SevenInstruments) =>
        /\ call.out.calls = <<>>
        /\ ~call.out.escaped

\* a name of Object.prototype as the instrument, the synths loaded, a chord of the table
C3_Witness ==
    /\ pc = "done"
    /\ call.instrument = "constructor"
    /\ call.chordOrNote = Str("Cmaj")
    /\ ~call.synths.isNull
    /\ call.out.resolved
    /\ call.out.calls = <<>>

\* C4: playInstrument with an undefined or empty chord makes no trigger call,
\* for every instrument name, the synths loaded or not.
C4_NoChord ==
    (pc = "done" /\ (call.chordOrNote = Undefined \/ call.chordOrNote = Str(""))) =>
        call.out.calls = <<>>

C4_Witness ==
    /\ pc = "done"
    /\ call.chordOrNote = Undefined
    /\ call.instrument = "kick"
    /\ ~call.synths.isNull
    /\ call.out.log = <<"error: Synths not loaded or invalid note">>

\* the note a synthesizer is to be given for the note name n of the table
Normalized(n) ==
    IF n \in {"A", "B", "C", "D", "E", "F", "G"} THEN n \o "4" ELSE n

-----------------------------------------------------------------------------
(* The socket message handler (SpecMessage).                               *)

\* the object a message's text parses to: its keys, and for a key the value
\* written last and the place it was first written
KeysOf(data) == {data[i].key : i \in DOMAIN data}
FinalValue(data, k) ==
    data[CHOOSE i \in DOMAIN data :
            data[i].key = k /\ \A j \in DOMAIN data : j > i => data[j].key # k].value
FirstWritten(data, k) ==
    CHOOSE i \in DOMAIN data : data[i].key = k /\ \A j \in DOMAIN data : j < i => data[j].key # k

\* the order in which an object's keys are iterated: array indices first, by
\* value, then the other keys as they were created
Digits == <<"0", "1", "2", "3", "4", "5", "6", "7", "8", "9">>
IsArrayIndex(k) == \E n \in DOMAIN Digits : Digits[n] = k
ArrayIndex(k) == CHOOSE n \in DOMAIN Digits : Digits[n] = k
IteratedBefore(data, a, b) ==
    IF IsArrayIndex(a) /\ IsArrayIndex(b) THEN ArrayIndex(a) < ArrayIndex(b)
    ELSE IF IsArrayIndex(a) THEN TRUE
    ELSE IF IsArrayIndex(b) THEN FALSE
    ELSE FirstWritten(data, a) < FirstWritten(data, b)

\* C8: onMessage invokes playInstrument exactly once for each field whose value
\* is a string, with the field's name and value, in the object's key iteration
\* order, and never for a field whose value is not a string.
C8_StringFields ==
    epc = "done" =>
        LET data == event.data
            invoked == event.out.invoked
        IN  /\ \A k \in KeysOf(data) :
                   FinalValue(data, k).t = "string" =>
                       /\ Cardinality({i \in DOMAIN invoked : invoked[i].instrument = k}) = 1
                       /\ \A i \in DOMAIN invoked :
                              invoked[i].instrument = k =>
                                  invoked[i].chordOrNote = FinalValue(data, k)
            /\ \A i \in DOMAIN invoked :
                   /\ invoked[i].instrument \in KeysOf(data)
                   /\ FinalValue(data, invoked[i].instrument).t = "string"
            /\ \A i, j \in DOMAIN invoked :
                   i < j => IteratedBefore(data, invoked[i].instrument, invoked[j].instrument)

\* {"kick": "Cmaj", "0": ""}: both are strings and both are dispatched, the array
\* index "0" first
C8_Witness ==
    /\ epc = "done"
    /\ event.data = << Member("kick", Str("Cmaj")), Member("0", Str("")) >>
    /\ event.out.invoked = << [instrument |-> "0", chordOrNote |-> Str("")],
                              [instrument |-> "kick", chordOrNote |-> Str("Cmaj")] >>

\* C9: when a trigger call throws inside playInstrument, the exception is
\* caught and logged and does not leave playInstrument; onMessage still
\* dispatches every string field of the message, the fields after the failing
\* one make their trigger calls, and the calls made before the throw stand.
C9_ThrowContained ==
    epc = "done" =>
        LET clean == onMessage(event.synths, event.data, event.now, 0)
            out == event.out
            f == event.failAt
        IN  /\ ~out.escaped
            /\ out.invoked = clean.invoked
            /\ f \in 1..Len(clean.calls) =>
                   /\ Len(out.calls) >= f
                   /\ out.calls[f].threw
                   /\ \A i \in 1..(f - 1) : out.calls[i] = clean.calls[i]
                   /\ \E i \in DOMAIN out.log : out.log[i] = "error: Error in playInstrument"
                   /\ \A i \in DOMAIN clean.calls :
                          clean.calls[i].synth # clean.calls[f].synth =>
                              \E j \in DOMAIN out.calls : out.calls[j] = clean.calls[i]

\* {"kick": "Cmaj", "piano": "Cmaj"}: the attack of the kick's second note
\* throws; the first note's two calls stand and the piano makes its six
C9_Witness ==
    /\ epc = "done"
    /\ ~event.synths.isNull
    /\ event.data = << Member("kick", Str("Cmaj")), Member("piano", Str("Cmaj")) >>
    /\ event.failAt = 3
    /\ Len(event.out.calls) = 9
    /\ event.out.calls[3].threw
    /\ event.out.calls[4].synth = "piano"
    /\ Len(event.out.invoked) = 2

-----------------------------------------------------------------------------
(* The component (Spec).                                                   *)

\* what C10 says of the synth set and of the trigger calls
PublishedOnce ==
    /\ triggered => ~synths.isNull
    /\ publishes <= 1
    /\ publishes = 1 => (created = SevenInstruments /\ loadPc = "published")
    /\ ~synths.isNull => (DOMAIN synths.own = SevenInstruments /\ publishes = 1)
    /\ ~last.published => last.calls = 0
    /\ loadPc = "rejected" => (synths.isNull /\ ~triggered)
    /\ last.handled <= 1

\* C10 as stated: no trigger call before the full synth set is published, the
\* set is published at most once and whole, after both loads; a message handled
\* while it is null triggers nothing; and exactly one message listener is
\* registered at any time (here: at any time after the mount effects have run
\* and before the unmount).
C10_ExactlyOneListener ==
    /\ PublishedOnce
    /\ (mounted /\ committed.ran) => Cardinality(listeners) = 1

\* C10 amended: the same, with at most one listener registered at any time:
\* the one of the listener effect's last run while the component is mounted and
\* that run had a socket, and none otherwise.
C10_AtMostOneListener ==
    /\ PublishedOnce
    /\ Cardinality(listeners) <= 1
    /\ (mounted /\ committed.ran /\ committed.socket # NoSocket) =>
           listeners = {Listener(committed)}
    /\ (~mounted \/ ~committed.ran \/ committed.socket = NoSocket) => listeners = {}

\* a message handled by the one listener, of the render after the publication,
\* has made trigger calls
C10_Witness ==
    /\ triggered
    /\ last.handled = 1
    /\ last.calls > 0
    /\ ~committed.synths.isNull
    /\ listeners = {Listener(committed)}

-----------------------------------------------------------------------------
(* The audio context controls (SpecAudio).                                 *)

\* C6: a press of Play that finds the context running, and a press of Pause
\* that finds it not running, call neither resume nor close and leave the
\* context as it was.
C6_NoOp ==
    [][(/\ presses' = presses + 1
        /\ \/ lastPress'.handler = "start" /\ ctxState = "running"
           \/ lastPress'.handler = "stop" /\ ctxState # "running")
       => (/\ lastPress'.called = "none"
           /\ UNCHANGED <<ctxState, pending, resumedIn, closedIn>>)]_vars

\* Play pressed on a context that an earlier press has made run
C6_Witness ==
    /\ lastPress = [handler |-> "start", before |-> "running", called |-> "none"]
    /\ resumedIn = {"suspended"}
    /\ ctxState = "running"

\* C7: Play calls resume exactly when it finds the context suspended and Pause
\* calls close exactly when it finds it running; resume is only ever called on
\* a suspended context.
C7_ResumeOnlySuspended ==
    /\ resumedIn \subseteq {"suspended"}
    /\ closedIn \subseteq {"running"}
    /\ lastPress.handler = "start" =>
           (lastPress.called = "resume" <=> lastPress.before = "suspended")
    /\ lastPress.handler = "stop" =>
           (lastPress.called = "close" <=> lastPress.before = "running")

====
